---- MODULE Spec2Model ----
(***************************************************************************)
(* greek-verb-writer (src/src/main.rs): a stem string such as pres:STEM    *)
(* is classified, the requested tense/voice/mood codes are conjugated into *)
(* the Verb's slots, printed, and optionally written to a csv file.        *)
(*                                                                         *)
(* A Rust String is modelled as the sequence of its Unicode scalar values. *)
(* str::starts_with, str::split and the byte slice &s[2..] act on UTF-8    *)
(* bytes; on valid UTF-8 with patterns that are whole characters (and a    *)
(* slice that cuts after two ASCII bytes) they agree with the same         *)
(* operation on the sequence of characters.                                *)
(*                                                                         *)
(* A character is written as a one-element name.  ASCII characters are     *)
(* themselves ("p", ":", ","); Greek characters are written in upper-case  *)
(* Beta Code:  A E H I K M N O P Q S T U W  are alpha epsilon eta iota     *)
(* kappa mu nu omicron pi theta sigma tau upsilon omega, J is final sigma, *)
(* and the diacritics follow the letter:  ) smooth breathing, ( rough      *)
(* breathing, / acute, ! grave, = circumflex, | iota subscript.  So "A)"   *)
(* is U+1F00, "A(/" is U+1F05, "H)|" is U+1F90 and "E)" is U+1F10.         *)
(***************************************************************************)
EXTENDS Integers, Sequences, FiniteSets, TLC

\* ------------------------------------------------------------ bounds ----
MaxBody == 2
MaxReqs == 2
MaxStemLen == 2

\* ------------------------------------------------------- str helpers ----
\* str::starts_with(pat)
StartsWith(s, pat) ==
    /\ Len(pat) <= Len(s)
    /\ SubSeq(s, 1, Len(pat)) = pat

\* position of the first match of pat in s at or after k (0: no match);
\* the left-to-right search of str::split
RECURSIVE FindFrom(_, _, _)
FindFrom(s, pat, k) ==
    IF k + Len(pat) - 1 > Len(s) THEN 0
    ELSE IF SubSeq(s, k, k + Len(pat) - 1) = pat THEN k
    ELSE FindFrom(s, pat, k + 1)

\* s.split(pat).collect::<Vec<&str>>(): the pieces between the
\* non-overlapping matches of the (non-empty) pattern, n + 1 pieces for n
\* matches
RECURSIVE Split(_, _)
Split(s, pat) ==
    LET k == FindFrom(s, pat, 1)
    IN  IF k = 0 THEN <<s>>
        ELSE <<SubSeq(s, 1, k - 1)>> \o Split(SubSeq(s, k + Len(pat), Len(s)), pat)

\* ------------------------------------------------------------- Stem ----
Pres(val) == [tag |-> "Pres", text |-> val]
Fut(val) == [tag |-> "Fut", text |-> val]
Aor(val) == [tag |-> "Aor", text |-> val]
Perf(val) == [tag |-> "Perf", text |-> val]

\* the outcome of a call that panics (index out of bounds) instead of
\* returning a Stem
Panicked == [tag |-> "panic", text |-> <<>>]

\* impl fmt::Display for Stem: the carried text
StemDisplay(stem) == stem.text

\* ------------------------------------------------------- Conjugated ----
\* Conjugated::None is the empty option, Conjugated::Some(v) holds v
None == <<>>
Some(v) == <<v>>

\* the ten slots of a Verb
Codes == {"pai", "ppi", "iai", "ipi", "fai", "fmi", "fpi", "aai", "ami", "api"}

\* ------------------------------------------------------------- Verb ----
\* Verb::get_stem_type; v[1] of the source is v[2] here (1-based), and
\* indexing past the end of v panics
get_stem_type(s) ==
    LET v == Split(s, <<":">>)
        t == v[1]
    IN  IF t = <<"p", "r", "e", "s">>
        THEN (IF Len(v) < 2 THEN Panicked ELSE Pres(v[2]))
        ELSE IF t = <<"f", "u", "t">>
        THEN (IF Len(v) < 2 THEN Panicked ELSE Fut(v[2]))
        ELSE IF t = <<"a", "o", "r">>
        THEN (IF Len(v) < 2 THEN Panicked ELSE Aor(v[2]))
        ELSE IF t = <<"p", "e", "r", "f">>
        THEN (IF Len(v) < 2 THEN Panicked ELSE Perf(v[2]))
        ELSE Pres(v[1])

\* Verb::new
Verb_new(s) ==
    [stem |-> get_stem_type(s), slots |-> [c \in Codes |-> None]]

\* for ending in [...] { v.push(format!("{}{}", base, ending)) }
Parts(base, endings) ==
    [k \in 1..Len(endings) |-> base \o endings[k]]

\* aug_and_stem without its six diphthong arms
aug_and_stem_no_diphthongs(stem) ==
    IF StartsWith(stem, <<"A)">>)
    THEN [aug |-> <<"H)">>, stem |-> Split(stem, <<"A)">>)[2]]
    ELSE IF StartsWith(stem, <<"A)!">>)
    THEN [aug |-> <<"H)">>, stem |-> Split(stem, <<"A)!">>)[2]]
    ELSE IF StartsWith(stem, <<"A)=">>)
    THEN [aug |-> <<"H)">>, stem |-> Split(stem, <<"A)=">>)[2]]
    ELSE IF StartsWith(stem, <<"A(">>)
    THEN [aug |-> <<"H(">>, stem |-> Split(stem, <<"A(">>)[2]]
    ELSE IF StartsWith(stem, <<"A(/">>)
    THEN [aug |-> <<"H(">>, stem |-> Split(stem, <<"A(/">>)[2]]
    ELSE IF StartsWith(stem, <<"A(=">>)
    THEN [aug |-> <<"H(">>, stem |-> Split(stem, <<"A(=">>)[2]]
    ELSE [aug |-> <<"E)">>, stem |-> stem]

\* Verb::aug_and_stem: the arms are tried in the order written; the arm
\* that matches replaces stem by the SECOND piece of stem.split(prefix)
aug_and_stem(stem) ==
    IF StartsWith(stem, <<"A)">>)
    THEN [aug |-> <<"H)">>, stem |-> Split(stem, <<"A)">>)[2]]
    ELSE IF StartsWith(stem, <<"A)!">>)
    THEN [aug |-> <<"H)">>, stem |-> Split(stem, <<"A)!">>)[2]]
    ELSE IF StartsWith(stem, <<"A)=">>)
    THEN [aug |-> <<"H)">>, stem |-> Split(stem, <<"A)=">>)[2]]
    ELSE IF StartsWith(stem, <<"A(">>)
    THEN [aug |-> <<"H(">>, stem |-> Split(stem, <<"A(">>)[2]]
    ELSE IF StartsWith(stem, <<"A(/">>)
    THEN [aug |-> <<"H(">>, stem |-> Split(stem, <<"A(/">>)[2]]
    ELSE IF StartsWith(stem, <<"A(=">>)
    THEN [aug |-> <<"H(">>, stem |-> Split(stem, <<"A(=">>)[2]]
    ELSE IF StartsWith(stem, <<"A", "I)">>)
    THEN [aug |-> <<"H)|">>, stem |-> Split(stem, <<"A", "I)">>)[2]]
    ELSE IF StartsWith(stem, <<"A", "I)/">>)
    THEN [aug |-> <<"H)|">>, stem |-> Split(stem, <<"A", "I)/">>)[2]]
    ELSE IF StartsWith(stem, <<"A", "I)=">>)
    THEN [aug |-> <<"H)|">>, stem |-> Split(stem, <<"A", "I)=">>)[2]]
    ELSE IF StartsWith(stem, <<"A", "I(">>)
    THEN [aug |-> <<"H(|">>, stem |-> Split(stem, <<"A", "I(">>)[2]]
    ELSE IF StartsWith(stem, <<"A", "I(/">>)
    THEN [aug |-> <<"H(|">>, stem |-> Split(stem, <<"A", "I(/">>)[2]]
    ELSE IF StartsWith(stem, <<"A", "I(=">>)
    THEN [aug |-> <<"H(|">>, stem |-> Split(stem, <<"A", "I(=">>)[2]]
    ELSE [aug |-> <<"E)">>, stem |-> stem]

\* the ending arrays of the conj_* methods, in the order written
EndPai == << <<"W">>, <<"E", "I", "J">>, <<"E", "I">>, <<"O", "M", "E", "N">>,
             <<"E", "T", "E">>, <<"O", "U", "S", "I">> >>
EndPpi == << <<"O", "M", "A", "I">>, <<"H|">>, <<"E", "T", "A", "I">>,
             <<"O", "M", "E", "Q", "A">>, <<"E", "S", "Q", "E">>,
             <<"O", "N", "T", "A", "I">> >>
EndIai == << <<"O", "N">>, <<"E", "J">>, <<"E">>, <<"O", "M", "E", "N">>,
             <<"E", "T", "E">>, <<"O", "N">> >>
EndIpi == << <<"O", "M", "H", "N">>, <<"O", "U">>, <<"E", "T", "O">>,
             <<"O", "M", "E", "Q", "A">>, <<"E", "S", "Q", "E">>,
             <<"O", "N", "T", "O">> >>
EndFai == << <<"W">>, <<"E", "I", "J">>, <<"E", "I">>, <<"O", "M", "E", "N">>,
             <<"E", "T", "E">>, <<"O", "U", "S", "I">> >>
EndFmi == << <<"O", "M", "A", "I">>, <<"H|">>, <<"E", "T", "A", "I">>,
             <<"O", "M", "E", "Q", "A">>, <<"E", "S", "Q", "E">>,
             <<"O", "N", "T", "A", "I">> >>
EndFpi == << <<"Q", "H", "S", "O", "M", "A", "I">>, <<"Q", "H", "S", "H|">>,
             <<"Q", "H", "S", "E", "T", "A", "I">>,
             <<"Q", "H", "S", "O", "M", "E", "Q", "A">>,
             <<"Q", "H", "S", "E", "S", "Q", "E">>,
             <<"Q", "H", "S", "O", "N", "T", "A", "I">> >>
EndAai == << <<"A">>, <<"A", "J">>, <<"E">>, <<"A", "M", "E", "N">>,
             <<"A", "T", "E">>, <<"A", "N">> >>
EndAmi == << <<"A", "M", "H", "N">>, <<"W">>, <<"A", "T", "O">>,
             <<"A", "M", "E", "Q", "A">>, <<"A", "S", "Q", "E">>,
             <<"A", "N", "T", "O">> >>
EndApi == << <<"Q", "H", "N">>, <<"Q", "H", "J">>, <<"Q", "H">>,
             <<"Q", "H", "M", "E", "N">>, <<"Q", "H", "T", "E">>,
             <<"Q", "H", "S", "A", "N">> >>

\* conj_ppi assigning self.pai
conj_ppi_into_pai(vb) ==
    [vb EXCEPT !.slots["pai"] = Some(Parts(StemDisplay(vb.stem), EndPpi))]

\* conj_fmi assigning self.fai as well as self.fmi
conj_fmi_and_fai(vb) ==
    [vb EXCEPT !.slots["fmi"] = Some(Parts(StemDisplay(vb.stem), EndFmi)),
               !.slots["fai"] = Some(Parts(StemDisplay(vb.stem), EndFmi))]

\* conj_aai augmenting the stem as the imperfect methods do
conj_aai_augmented(vb) ==
    LET r == aug_and_stem(StemDisplay(vb.stem))
    IN  [vb EXCEPT !.slots["aai"] = Some(Parts(r.aug \o r.stem, EndAai))]

\* the conj_* methods: each computes the six parts and assigns its own slot
conj_pai(vb) ==
    [vb EXCEPT !.slots["pai"] = Some(Parts(StemDisplay(vb.stem), EndPai))]

conj_ppi(vb) ==
    [vb EXCEPT !.slots["ppi"] = Some(Parts(StemDisplay(vb.stem), EndPpi))]

conj_iai(vb) ==
    LET r == aug_and_stem(StemDisplay(vb.stem))
    IN  [vb EXCEPT !.slots["iai"] = Some(Parts(r.aug \o r.stem, EndIai))]

conj_ipi(vb) ==
    LET r == aug_and_stem(StemDisplay(vb.stem))
    IN  [vb EXCEPT !.slots["ipi"] = Some(Parts(r.aug \o r.stem, EndIpi))]

conj_fai(vb) ==
    [vb EXCEPT !.slots["fai"] = Some(Parts(StemDisplay(vb.stem), EndFai))]

conj_fmi(vb) ==
    [vb EXCEPT !.slots["fmi"] = Some(Parts(StemDisplay(vb.stem), EndFmi))]

conj_fpi(vb) ==
    [vb EXCEPT !.slots["fpi"] = Some(Parts(StemDisplay(vb.stem), EndFpi))]

conj_aai(vb) ==
    [vb EXCEPT !.slots["aai"] = Some(Parts(StemDisplay(vb.stem), EndAai))]

conj_ami(vb) ==
    [vb EXCEPT !.slots["ami"] = Some(Parts(StemDisplay(vb.stem), EndAmi))]

conj_api(vb) ==
    [vb EXCEPT !.slots["api"] = Some(Parts(StemDisplay(vb.stem), EndApi))]

\* one iteration of the loop of conj_reqs: the match on req
conj_req(vb, req) ==
    CASE req = "pai" -> conj_pai(vb)
      [] req = "ppi" -> conj_ppi(vb)
      [] req = "iai" -> conj_iai(vb)
      [] req = "ipi" -> conj_ipi(vb)
      [] req = "fai" -> conj_fai(vb)
      [] req = "fmi" -> conj_fmi(vb)
      [] req = "fpi" -> conj_fpi(vb)
      [] req = "aai" -> conj_aai(vb)
      [] req = "ami" -> conj_ami(vb)
      [] req = "api" -> conj_api(vb)
      [] OTHER -> vb

\* Conjugated::print: every part is pushed as ", " followed by the part,
\* and the line printed is the string from byte 2 on; None prints nothing.
\* The value is the sequence of lines written to standard output.
RECURSIVE PushParts(_, _)
PushParts(s, v) ==
    IF v = <<>> THEN s
    ELSE PushParts(s \o <<",", " ">> \o Head(v), Tail(v))

\* Conjugated::print slicing from byte 1
Conjugated_print_slice1(c) ==
    IF c = None THEN <<>>
    ELSE LET s == PushParts(<<>>, c[1])
         IN  <<SubSeq(s, 2, Len(s))>>

Conjugated_print(c) ==
    IF c = None THEN <<>>
    ELSE LET s == PushParts(<<>>, c[1])
         IN  <<SubSeq(s, 3, Len(s))>>

\* one iteration of the loop of print_reqs: the lines added to standard
\* output and to standard error
print_req(vb, req) ==
    IF req \in Codes
    THEN [out |-> Conjugated_print(vb.slots[req]), err |-> <<>>]
    ELSE [out |-> <<>>, err |-> <<"print_reqs part not recognised.">>]

\* one iteration of the loop of to_csv: the slot selected by the match
\* (any other code selects vb.pai) and the records written for it
csv_selected(vb, req) ==
    IF req \in Codes THEN vb.slots[req] ELSE vb.slots["pai"]

csv_req(vb, req) ==
    LET conjugated == csv_selected(vb, req)
    IN  IF conjugated # None THEN <<conjugated[1]>> ELSE <<>>

\* the default list with the Perf arm giving the present codes
DefaultReqs_perf_as_pres(stem) ==
    CASE stem.tag = "Pres" -> <<"pai", "ppi", "iai", "ipi">>
      [] stem.tag = "Fut" -> <<"fai", "fmi", "fpi">>
      [] stem.tag = "Aor" -> <<"aai", "ami", "api">>
      [] stem.tag = "Perf" -> <<"pai", "ppi", "iai", "ipi">>

\* main: the request list when --tva is absent
DefaultReqs(stem) ==
    CASE stem.tag = "Pres" -> <<"pai", "ppi", "iai", "ipi">>
      [] stem.tag = "Fut" -> <<"fai", "fmi", "fpi">>
      [] stem.tag = "Aor" -> <<"aai", "ami", "api">>
      [] stem.tag = "Perf" -> <<"pfai", "pfpi", "plai", "plpi">>

\* ------------------------------------------------------------ state ----
VARIABLES
    pc,      \* where main is: "start", "conj_reqs", "print_reqs", "to_csv",
             \* "done" (main returned Ok) or "panicked"
    input,   \* the value of --stem
    tva,     \* the values of --tva, NoTva when the option is absent (--all)
    toCsv,   \* whether --to-csv is present
    vb,      \* the Verb
    reqs,    \* the request list
    i,       \* the position of the running loop in reqs
    stdout,  \* the lines printed to standard output
    stderr,  \* the lines printed to standard error
    csv      \* the records written to ./test-output.csv

vars == <<pc, input, tva, toCsv, vb, reqs, i, stdout, stderr, csv>>

\* --tva takes at least one value when it is given
NoTva == <<>>

\* vb before Verb::new has run
NoVerb == [stem |-> [tag |-> "none", text |-> <<>>], slots |-> [c \in Codes |-> None]]

\* ----------------------------------------------------------- inputs ----
\* all strings over an alphabet up to a length
Strings(alphabet, n) == UNION {[1..k -> alphabet] : k \in 0..n}

TagWords == {<<"p", "r", "e", "s">>, <<"f", "u", "t">>, <<"a", "o", "r">>,
             <<"p", "e", "r", "f">>}

\* how a --stem value may begin: nothing, a tag word, or another word
Heads == TagWords \cup {<<>>, <<"x", "y", "z">>}

BodyAlphabet == {":", "P"}

\* the stem strings of the usage text and of the documented examples
ExampleInputs == {<<"p", "r", "e", "s", ":", "P", "A", "U">>,
                  <<"p", "r", "e", "s", ":", "A)", "K", "O", "U">>,
                  <<"x", "y", "z", ":", "f", "o", "o">>}

Inputs == {h \o b : h \in Heads, b \in Strings(BodyAlphabet, MaxBody)}
              \cup ExampleInputs

\* the codes a caller may pass: the ten of the Verb and one that is none of
\* them
ReqCodes == Codes \cup {"pfai"}

TvaArgs == {NoTva} \cup UNION {[1..k -> ReqCodes] : k \in 1..MaxReqs}

\* every character the prefix table of aug_and_stem reads, and a consonant
StemAlphabet == {"A)", "A)!", "A)=", "A(", "A(/", "A(=", "A",
                 "I)", "I)/", "I)=", "I(", "I(/", "I(=", "P"}

TaggedStems == {t \o <<":">> \o s : t \in TagWords, s \in Strings(StemAlphabet, MaxStemLen)}

\* ---------------------------------------------------------- actions ----
Init ==
    /\ pc = "start"
    /\ input \in Inputs
    /\ tva \in TvaArgs
    /\ toCsv \in BOOLEAN
    /\ vb = NoVerb
    /\ reqs = <<>>
    /\ i = 1
    /\ stdout = <<>>
    /\ stderr = <<>>
    /\ csv = <<>>

\* the same program started on every tagged stem over the characters of
\* the augment table, with one requested code
InitStem ==
    /\ pc = "start"
    /\ input \in TaggedStems
    /\ tva \in {<<c>> : c \in Codes}
    /\ toCsv \in BOOLEAN
    /\ vb = NoVerb
    /\ reqs = <<>>
    /\ i = 1
    /\ stdout = <<>>
    /\ stderr = <<>>
    /\ csv = <<>>

\* main, lines 54-69: Verb::new(stem), which panics when get_stem_type
\* does, then the request list
MainNew ==
    /\ pc = "start"
    /\ LET nv == Verb_new(input)
       IN  IF nv.stem = Panicked
           THEN /\ pc' = "panicked"
                /\ UNCHANGED <<vb, reqs>>
           ELSE /\ vb' = nv
                /\ reqs' = (IF tva # NoTva THEN tva ELSE DefaultReqs(nv.stem))
                /\ pc' = "conj_reqs"
    /\ UNCHANGED <<input, tva, toCsv, i, stdout, stderr, csv>>

\* conj_reqs: one iteration of its loop
ConjReqs ==
    /\ pc = "conj_reqs"
    /\ vb' = conj_req(vb, reqs[i])
    /\ IF i = Len(reqs)
       THEN pc' = "print_reqs" /\ i' = 1
       ELSE pc' = pc /\ i' = i + 1
    /\ UNCHANGED <<input, tva, toCsv, reqs, stdout, stderr, csv>>

\* print_reqs: one iteration of its loop; after the last one main goes on
\* to to_csv when --to-csv is present and returns Ok otherwise
PrintReqs ==
    /\ pc = "print_reqs"
    /\ LET p == print_req(vb, reqs[i])
       IN  /\ stdout' = stdout \o p.out
           /\ stderr' = stderr \o p.err
    /\ IF i = Len(reqs)
       THEN pc' = (IF toCsv THEN "to_csv" ELSE "done") /\ i' = 1
       ELSE pc' = pc /\ i' = i + 1
    /\ UNCHANGED <<input, tva, toCsv, vb, reqs, csv>>

\* to_csv: one iteration of its loop; the csv crate's from_path,
\* write_record and flush are taken to succeed (all records have six
\* fields, the file system is outside the program)
ToCsv ==
    /\ pc = "to_csv"
    /\ csv' = csv \o csv_req(vb, reqs[i])
    /\ IF i = Len(reqs)
       THEN pc' = "done" /\ i' = 1
       ELSE pc' = pc /\ i' = i + 1
    /\ UNCHANGED <<input, tva, toCsv, vb, reqs, stdout, stderr>>

Next == MainNew \/ ConjReqs \/ PrintReqs \/ ToCsv

Spec == Init /\ [][Next]_vars

SpecStem == InitStem /\ [][Next]_vars

\* ============================================================ claims ====
\* Verb::new has returned a Verb
Started == pc \notin {"start", "panicked"}

HasSeparator(s) == \E k \in 1..Len(s) : s[k] = ":"

FirstSeparator(s) ==
    CHOOSE k \in 1..Len(s) : s[k] = ":" /\ \A j \in 1..(k - 1) : s[j] # ":"

\* the text before the first separator
TagOf(s) == SubSeq(s, 1, FirstSeparator(s) - 1)

VariantOf(t) ==
    CASE t = <<"p", "r", "e", "s">> -> "Pres"
      [] t = <<"f", "u", "t">> -> "Fut"
      [] t = <<"a", "o", "r">> -> "Aor"
      [] t = <<"p", "e", "r", "f">> -> "Perf"

\* the prefix -> augment table of the specification's AugmentResolver
PrefixTable ==
    {[prefix |-> <<"A)">>, aug |-> <<"H)">>],
     [prefix |-> <<"A)!">>, aug |-> <<"H)">>],
     [prefix |-> <<"A)=">>, aug |-> <<"H)">>],
     [prefix |-> <<"A(">>, aug |-> <<"H(">>],
     [prefix |-> <<"A(/">>, aug |-> <<"H(">>],
     [prefix |-> <<"A(=">>, aug |-> <<"H(">>],
     [prefix |-> <<"A", "I)">>, aug |-> <<"H)|">>],
     [prefix |-> <<"A", "I)/">>, aug |-> <<"H)|">>],
     [prefix |-> <<"A", "I)=">>, aug |-> <<"H)|">>],
     [prefix |-> <<"A", "I(">>, aug |-> <<"H(|">>],
     [prefix |-> <<"A", "I(/">>, aug |-> <<"H(|">>],
     [prefix |-> <<"A", "I(=">>, aug |-> <<"H(|">>]}

\* longest-prefix-first lookup in that table
Matching(s) ==
    {e \in PrefixTable : Len(e.prefix) <= Len(s) /\ SubSeq(s, 1, Len(e.prefix)) = e.prefix}

LongestMatch(s) ==
    CHOOSE e \in Matching(s) : \A f \in Matching(s) : Len(f.prefix) <= Len(e.prefix)

TableAugment(s) == IF Matching(s) = {} THEN <<"E)">> ELSE LongestMatch(s).aug

TableConsumed(s) == IF Matching(s) = {} THEN 0 ELSE Len(LongestMatch(s).prefix)

\* the stem with exactly the matched prefix removed
TrimmedStem(s) == SubSeq(s, TableConsumed(s) + 1, Len(s))

\* the ending table of the specification, by code
TableEndings(c) ==
    CASE c \in {"pai", "fai"} ->
           << <<"W">>, <<"E", "I", "J">>, <<"E", "I">>, <<"O", "M", "E", "N">>,
              <<"E", "T", "E">>, <<"O", "U", "S", "I">> >>
      [] c \in {"ppi", "fmi"} ->
           << <<"O", "M", "A", "I">>, <<"H|">>, <<"E", "T", "A", "I">>,
              <<"O", "M", "E", "Q", "A">>, <<"E", "S", "Q", "E">>,
              <<"O", "N", "T", "A", "I">> >>
      [] c = "iai" ->
           << <<"O", "N">>, <<"E", "J">>, <<"E">>, <<"O", "M", "E", "N">>,
              <<"E", "T", "E">>, <<"O", "N">> >>
      [] c = "ipi" ->
           << <<"O", "M", "H", "N">>, <<"O", "U">>, <<"E", "T", "O">>,
              <<"O", "M", "E", "Q", "A">>, <<"E", "S", "Q", "E">>,
              <<"O", "N", "T", "O">> >>
      [] c = "fpi" ->
           << <<"Q", "H", "S", "O", "M", "A", "I">>, <<"Q", "H", "S", "H|">>,
              <<"Q", "H", "S", "E", "T", "A", "I">>,
              <<"Q", "H", "S", "O", "M", "E", "Q", "A">>,
              <<"Q", "H", "S", "E", "S", "Q", "E">>,
              <<"Q", "H", "S", "O", "N", "T", "A", "I">> >>
      [] c = "aai" ->
           << <<"A">>, <<"A", "J">>, <<"E">>, <<"A", "M", "E", "N">>,
              <<"A", "T", "E">>, <<"A", "N">> >>
      [] c = "ami" ->
           << <<"A", "M", "H", "N">>, <<"W">>, <<"A", "T", "O">>,
              <<"A", "M", "E", "Q", "A">>, <<"A", "S", "Q", "E">>,
              <<"A", "N", "T", "O">> >>
      [] c = "api" ->
           << <<"Q", "H", "N">>, <<"Q", "H", "J">>, <<"Q", "H">>,
              <<"Q", "H", "M", "E", "N">>, <<"Q", "H", "T", "E">>,
              <<"Q", "H", "S", "A", "N">> >>

AugmentedCodes == {"iai", "ipi"}

\* the results, in request order, of the requested codes that have one
RECURSIVE ResultsOf(_, _)
ResultsOf(v, rs) ==
    IF rs = <<>> THEN <<>>
    ELSE (IF Head(rs) \in Codes /\ v.slots[Head(rs)] # None
          THEN <<v.slots[Head(rs)][1]>> ELSE <<>>) \o ResultsOf(v, Tail(rs))

\* the forms joined with ", ": no delimiter before the first or after the
\* last
RECURSIVE Joined(_)
Joined(v) ==
    IF Len(v) = 1 THEN v[1] ELSE v[1] \o <<",", " ">> \o Joined(Tail(v))

\* the line of the documented end-to-end example
PauPaiLine ==
    <<"P", "A", "U", "W", ",", " ", "P", "A", "U", "E",
        "I", "J", ",", " ", "P", "A", "U", "E", "I", ",",
        " ", "P", "A", "U", "O", "M", "E", "N", ",", " ",
        "P", "A", "U", "E", "T", "E", ",", " ", "P", "A",
        "U", "O", "U", "S", "I">>

\* C1: for every input tag:body whose tag is none of pres, fut, aor, perf,
\* get_stem_type returns Present carrying the original full string, tag and
\* separator included.
C1_UnknownTagKeepsFullString ==
    (Started /\ HasSeparator(input) /\ TagOf(input) \notin TagWords)
        => vb.stem = Pres(input)

\* C2: the csv records written by to_csv are exactly the results of the
\* requested codes that have a computed result, in request order; a code
\* outside the ten contributes no record.
C2_CsvRowsAreRequestedResults ==
    (pc = "done" /\ toCsv) => csv = ResultsOf(vb, reqs)

\* C3: for iai and ipi the k-th form is augment ++ trimmed stem ++ k-th
\* ending, the trimmed stem being the stem with exactly the matched leading
\* prefix removed and everything after it kept.
C3_AugmentedForms ==
    \A c \in AugmentedCodes :
        (Started /\ vb.slots[c] # None) =>
            LET text == vb.stem.text
                forms == vb.slots[c][1]
            IN  /\ Len(forms) = 6
                /\ \A k \in 1..6 :
                       forms[k] = TableAugment(text) \o TrimmedStem(text) \o TableEndings(c)[k]

\* C4: the augment aug_and_stem returns is the one a longest-prefix-first
\* lookup in the prefix table gives (the default when nothing matches), and
\* every imperfect form stored begins with it.
C4_AugmentSelection ==
    Started =>
        LET text == vb.stem.text
        IN  /\ aug_and_stem(text).aug = TableAugment(text)
            /\ \A c \in AugmentedCodes :
                   vb.slots[c] # None =>
                       \A k \in 1..Len(vb.slots[c][1]) :
                           SubSeq(vb.slots[c][1][k], 1, 1) = TableAugment(text)

C4_Witness ==
    /\ pc = "done"
    /\ vb.stem.text = <<"A", "I(=">>
    /\ vb.slots["iai"] # None
    /\ vb.slots["iai"][1][1] = <<"H(|", "O", "N">>

\* C5: for the eight codes without augment, whatever the tense tag, the
\* result has exactly 6 forms and the k-th is the literal stem text followed
\* by the k-th ending of the table for that code.
C5_NonAugmentedForms ==
    \A c \in Codes \ AugmentedCodes :
        (Started /\ vb.slots[c] # None) =>
            LET forms == vb.slots[c][1]
            IN  /\ Len(forms) = 6
                /\ \A k \in 1..6 : forms[k] = vb.stem.text \o TableEndings(c)[k]

C5_Witness ==
    /\ pc = "done"
    /\ vb.stem = Pres(<<"A)", "P">>)
    /\ vb.slots["aai"] # None
    /\ vb.slots["aai"][1][4] = <<"A)", "P", "A", "M", "E", "N">>

\* C6: get_stem_type yields a Stem for every input without failing; an
\* input without separator is Present carrying the whole input, also when it
\* is one of the tag words; a recognized tag with an empty body yields that
\* variant with an empty stem.
C6_ClassifierTotal ==
    /\ pc # "panicked"
    /\ (Started /\ ~HasSeparator(input)) => vb.stem = Pres(input)
    /\ \A t \in TagWords :
           (Started /\ input = t \o <<":">>) => vb.stem = [tag |-> VariantOf(t), text |-> <<>>]

C8_SlotStability ==
    [][\A c \in Codes : vb.slots[c] # None => vb'.slots[c] = vb.slots[c]]_vars

C8_Witness ==
    /\ pc = "print_reqs"
    /\ reqs = <<"iai", "iai">>
    /\ vb.slots["iai"] # None

\* C9: standard output holds one line per occurrence of a requested code
\* that has a result, in request order, each the 6 forms joined with ", ";
\* other requested codes add nothing to it; pres:PAU with [pai] prints the
\* documented line.
C9_ConsoleLines ==
    /\ pc \in {"print_reqs", "to_csv", "done"} =>
           LET printed == IF pc = "print_reqs" THEN i - 1 ELSE Len(reqs)
               results == ResultsOf(vb, SubSeq(reqs, 1, printed))
           IN  stdout = [k \in 1..Len(results) |-> Joined(results[k])]
    /\ (pc \in {"to_csv", "done"}
            /\ input = <<"p", "r", "e", "s", ":", "P", "A", "U">>
            /\ reqs = <<"pai">>)
           => stdout = <<PauPaiLine>>

C9_Witness ==
    /\ pc = "done"
    /\ input = <<"p", "r", "e", "s", ":", "P", "A", "U">>
    /\ reqs = <<"pfai", "pai">>
    /\ stdout = <<PauPaiLine>>
    /\ Len(stderr) = 1

\* one iteration of conj_reqs changes at most the slot of the code it
\* processes, and fills it when the code is one of the ten
ConjStepFrame ==
    pc = "conj_reqs" =>
        /\ vb'.stem = vb.stem
        /\ \A c \in Codes : c # reqs[i] => vb'.slots[c] = vb.slots[c]
        /\ reqs[i] \in Codes => vb'.slots[reqs[i]] # None

\* after conj_reqs the filled slots are those of the requested codes that
\* are among the ten
FilledAsRequested ==
    pc \in {"print_reqs", "to_csv", "done"} =>
        {c \in Codes : vb.slots[c] # None}
            = {reqs[k] : k \in 1..Len(reqs)} \cap Codes

\* C10: processing a requested code changes only that code's slot, leaves
\* the stem and the other slots alone, and a code outside the ten changes
\* nothing; after conj_reqs exactly the slots of the requested codes of the
\* ten are filled.
C10_ConjReqsFrame ==
    []FilledAsRequested /\ [][ConjStepFrame]_vars

C10_Witness ==
    /\ pc = "done"
    /\ reqs = <<"fmi", "pfai">>
    /\ {c \in Codes : vb.slots[c] # None} = {"fmi"}

====
